---- MODULE Spec2Model ----
(***************************************************************************)
(* Model of the MCP orchestrator (src/mcp_server.py) and of the Python AST *)
(* analyzer (src/runtimes/python/analyzer.py).                             *)
(*                                                                         *)
(* Python values are tagged records: a dict is [t |-> "dict", d |-> r]     *)
(* with r a record whose DOMAIN is the dict's key set, a list is           *)
(* [t |-> "list", items |-> <<...>>], None is [t |-> "null"].  Text is a   *)
(* sequence of one-character strings where the                             *)
(* code inspects it (language tags), a record [text, detail] where it only *)
(* builds it (messages).  A call ends in [k |-> "return", v |-> value] or  *)
(* [k |-> "raise", exc |-> name].                                          *)
(***************************************************************************)
EXTENDS Integers, Sequences, FiniteSets, TLC

VARIABLES last_analyses, last_prompts, clock, ret,
          hist_analyses, hist_prompts, hist_summaries,
          pc, snapshot, retired,
          functions, current_function, total_branches, complexity,
          side_effects, heap, frames, visited, returned, tally

server_vars == <<last_analyses, last_prompts, clock, ret,
                 hist_analyses, hist_prompts, hist_summaries>>
thread_vars == <<pc, snapshot, retired>>
analyzer_vars == <<functions, current_function, total_branches, complexity,
                   side_effects, heap, frames, visited, returned, tally>>
vars == <<last_analyses, last_prompts, clock, ret,
          hist_analyses, hist_prompts, hist_summaries,
          pc, snapshot, retired,
          functions, current_function, total_branches, complexity,
          side_effects, heap, frames, visited, returned, tally>>

(***************************************************************************)
(* Program constants and bounds.                                           *)
(***************************************************************************)
CacheCap == 10
MaxCodeLen == 50000
TotalSteps == 3

MaxCalls == 1
MaxAppends == 12
MaxFunctions == 2
MaxStatements == 2
MaxHandlers == 1
MaxThreads == 2
MaxFlowCalls == 3

Threads == 1..MaxThreads

(***************************************************************************)
(* Text.                                                                   *)
(***************************************************************************)
JAVA == <<"j", "a", "v", "a">>
PYTHON == <<"p", "y", "t", "h", "o", "n">>
TYPESCRIPT == <<"t", "y", "p", "e", "s", "c", "r", "i", "p", "t">>
JAVASCRIPT == <<"j", "a", "v", "a", "s", "c", "r", "i", "p", "t">>
TS == <<"t", "s">>
JS == <<"j", "s">>
PYTHON_CAP == <<"P", "y", "t", "h", "o", "n">>
RUBY == <<"r", "u", "b", "y">>
UNKNOWN == <<"u", "n", "k", "n", "o", "w", "n">>

LowerChar(c) ==
    CASE c = "P" -> "p"
      [] c = "J" -> "j"
      [] c = "T" -> "t"
      [] OTHER -> c

\* str.lower()
Lower(s) == [i \in 1..Len(s) |-> LowerChar(s[i])]

Msg(text, detail) == [text |-> text, detail |-> detail]

PyDict(r) == [t |-> "dict", d |-> r]
PyList(items) == [t |-> "list", items |-> items]
PyNull == [t |-> "null"]

Return(v) == [k |-> "return", v |-> v]
Raise(exc) == [k |-> "raise", exc |-> exc]

ErrorDict(m) == PyDict([error |-> m])

\* Python's  "error" in v : key membership for a dict, element membership for
\* a list, TypeError for None.
InError(v) ==
    CASE v.t = "dict" -> IF "error" \in DOMAIN v.d THEN "yes" ELSE "no"
      [] v.t = "list" -> IF \E i \in 1..Len(v.items) : v.items[i] = "error"
                         THEN "yes" ELSE "no"
      [] OTHER -> "raise"

\* dict.get(key, default); only called on dicts.
Get(r, key, default) == IF key \in DOMAIN r THEN r[key] ELSE default

(***************************************************************************)
(* Source code strings: counts of whitespace characters, of one-byte       *)
(* non-whitespace characters and of two-byte (UTF-8) non-whitespace        *)
(* characters.                                                             *)
(***************************************************************************)
Code(ws, ascii, wide) == [ws |-> ws, ascii |-> ascii, wide |-> wide]

\* len(code)
CodeLen(code) == code.ws + code.ascii + code.wide
\* len(code.encode("utf-8"))
CodeBytes(code) == code.ws + code.ascii + 2 * code.wide
\* len(code.strip())
StrippedLen(code) == IF code.ascii + code.wide = 0 THEN 0 ELSE 1 + (code.ascii + code.wide - 1)

(***************************************************************************)
(* What the environment does when a backend is contacted: the transport    *)
(* outcome and, when the exchange completes with a parseable body, the     *)
(* parsed JSON value.                                                      *)
(***************************************************************************)
Fn(name) == [name |-> name]

Metrics(fns, ins, outs, cx, br, se) ==
    PyDict([functions |-> fns, inputs |-> ins, outputs |-> outs,
            complexity |-> cx, branches |-> br, branches_is_num |-> TRUE,
            side_effects |-> se])

\* {"functions":[{"name":"f"}],"inputs":["x: int"],"outputs":["int"],"complexity":2,"branches":1,"side_effects":[]}
BodyOneBranch == Metrics(<<Fn("f")>>, <<"x: int">>, <<"int">>, 2, 1, <<>>)
\* two functions, many branches, no declared return value, io side effect
BodyComplex == Metrics(<<Fn("f"), Fn("g")>>, <<>>, <<"None">>, 12, 7, <<"io_operations">>)
\* {"error": "Syntax error: ..."}
BodyError == ErrorDict(Msg("Syntax error: ", "invalid syntax"))
\* {"unrelated": 0}
BodyEmptyDict == PyDict([unrelated |-> 0])
\* a mapping whose "branches" is a JSON string
BodyBadTypes ==
    PyDict([functions |-> <<Fn("f")>>, inputs |-> <<>>, outputs |-> <<>>,
            complexity |-> 1, branches |-> 0, branches_is_num |-> FALSE,
            side_effects |-> <<>>])
\* []  and  ["error"]
BodyList == PyList(<<>>)
BodyListError == PyList(<<"error">>)

\* what the repository's own analyzer script can print
AnalyzerBodies == {BodyOneBranch, BodyComplex, BodyError}
\* what an external backend can answer with
ExternalBodies == AnalyzerBodies \cup
    {BodyEmptyDict, BodyBadTypes, BodyList, BodyListError, PyNull}

\* A body is AnalysisResult-shaped when it is a mapping carrying the metric
\* fields with the types the contract gives them.
AnalysisShaped(v) ==
    /\ v.t = "dict"
    /\ {"functions", "inputs", "outputs", "complexity", "branches", "side_effects"}
          \subseteq DOMAIN v.d
    /\ v.d.branches_is_num

FailedTransports == {"unreachable", "timeout", "bad_status", "empty", "malformed"}

Env(transport, body) == [transport |-> transport, body |-> body]

Envs == {Env(tr, PyNull) : tr \in FailedTransports}
           \cup {Env("ok", b) : b \in ExternalBodies}

\* the backend a language tag can reach may only answer what that backend can
EnvFits(route, env) ==
    (route = "python" /\ env.transport = "ok") => env.body \in AnalyzerBodies

(***************************************************************************)
(* _dispatch_analyze                                                       *)
(***************************************************************************)
\* lines 69-75
NormalizeLang(language) ==
    LET lang == Lower(language)
    IN  IF lang \in {TS, TYPESCRIPT} THEN TYPESCRIPT
        ELSE IF lang \in {JS, JAVASCRIPT} THEN TYPESCRIPT
        ELSE lang

\* the backend _dispatch_analyze contacts for a tag, "none" when it has none
Route(language) ==
    LET lang == NormalizeLang(language)
    IN  IF lang = JAVA THEN "java"
        ELSE IF lang = PYTHON THEN "python"
        ELSE IF lang = TYPESCRIPT THEN "typescript"
        ELSE "none"

\* lines 78-92: requests.post, raise_for_status, r.json(); what the inner
\* handlers do not catch reaches  except Exception  at line 152
DispatchJava(language, env) ==
    CASE env.transport = "unreachable" ->
           Return(ErrorDict(Msg("Java analyzer service not available. Please start the Spring Boot service on port 8080.", "")))
      [] env.transport = "timeout" ->
           Return(ErrorDict(Msg("Java analyzer service timeout. The code may be too complex.", "")))
      [] env.transport = "bad_status" ->
           Return(ErrorDict(Msg("Unexpected error in analysis: ", "HTTPError")))
      [] env.transport \in {"empty", "malformed"} ->
           Return(ErrorDict(Msg("Unexpected error in analysis: ", "JSONDecodeError")))
      [] OTHER -> Return(env.body)

\* lines 94-118 (Python) and 120-144 (TypeScript): os.path.exists,
\* subprocess.run, return code, stdout, json.loads; TimeoutExpired reaches
\* the handler at line 150
DispatchScript(name, language, env) ==
    CASE env.transport = "unreachable" ->
           Return(ErrorDict(Msg("analyzer not found. Please ensure it exists: ", name)))
      [] env.transport = "timeout" ->
           Return(ErrorDict(Msg("Analysis timeout. The code may be too complex or contain infinite loops.", "")))
      [] env.transport = "bad_status" ->
           Return(ErrorDict(Msg("analyzer failed: ", name)))
      [] env.transport = "empty" ->
           Return(ErrorDict(Msg("analyzer returned empty result: ", name)))
      [] env.transport = "malformed" ->
           Return(ErrorDict(Msg("Invalid JSON from analyzer: ", name)))
      [] OTHER -> Return(env.body)

\* lines 67-153
DispatchAnalyze(language, code, env) ==
    LET route == Route(language)
    IN  CASE route = "java" -> DispatchJava(language, env)
          [] route = "python" -> DispatchScript("Python", language, env)
          [] route = "typescript" -> DispatchScript("TypeScript", language, env)
          [] OTHER -> Return(ErrorDict(Msg("Unsupported language: ", language)))

(***************************************************************************)
(* _validate_code_input                                                    *)
(***************************************************************************)
\* the quantity line 163 compares with the limit: len(code)
SizeOf(code) == CodeLen(code)

IsBlankWrong(code) == CodeLen(code) = 0

\* line 160: len(code.strip()) == 0
IsBlank(code) == StrippedLen(code) = 0

ValidateCodeInput(code) ==
    IF CodeLen(code) = 0
    THEN ErrorDict(Msg("Code must be a non-empty string", ""))
    ELSE IF IsBlank(code)
    THEN ErrorDict(Msg("Code cannot be empty or only whitespace", ""))
    ELSE IF SizeOf(code) > MaxCodeLen
    THEN ErrorDict(Msg("Code is too large (max 50KB allowed)", ""))
    ELSE PyDict([valid |-> TRUE])

(***************************************************************************)
(* The bounded caches.                                                     *)
(***************************************************************************)
\* no truncation at all
KeepAll(cache) == cache

TruncateOldest(cache) ==
    IF Len(cache) > CacheCap THEN SubSeq(cache, 1, CacheCap) ELSE cache

\* cache[-10:]
Truncate(cache) ==
    IF Len(cache) > CacheCap
    THEN SubSeq(cache, Len(cache) - CacheCap + 1, Len(cache))
    ELSE cache

\* cache.append(entry); cache = cache[-10:]
CacheAppend(cache, entry) == Truncate(Append(cache, entry))

(***************************************************************************)
(* analyze_function                                                        *)
(***************************************************************************)
\* line 225
LanguageField(language) == Lower(language)

\* lines 224-238
Normalized(language, result, now) ==
    PyDict([language |-> LanguageField(language),
            functions |-> Get(result.d, "functions", <<>>),
            inputs |-> Get(result.d, "inputs", <<>>),
            outputs |-> Get(result.d, "outputs", <<>>),
            complexity |-> Get(result.d, "complexity", 0),
            branches |-> Get(result.d, "branches", 0),
            branches_is_num |-> Get(result.d, "branches_is_num", TRUE),
            side_effects |-> Get(result.d, "side_effects", <<>>),
            analysis_metadata |-> [timestamp |-> now, analyzer_version |-> "1.0.0",
                                   success |-> TRUE],
            raw |-> result])

\* an entry that is not flagged as a success
AnalysisEntryUnflagged(language, code, normalized, now) ==
    [timestamp |-> now, language |-> language, result |-> normalized,
     code_length |-> CodeLen(code), success |-> FALSE]

\* lines 242-248
AnalysisEntry(language, code, normalized, now) ==
    [timestamp |-> now, language |-> language, result |-> normalized,
     code_length |-> CodeLen(code), success |-> TRUE]

\* line 214
Rejected(validation) == InError(validation) = "yes"

\* The call's outcome, the functions it invoked, the backend it contacted
\* and the analysis cache it leaves.
AnalyzeFunction(language, code, env, now, cache) ==
    LET validation == ValidateCodeInput(code)
        result == DispatchAnalyze(language, code, env).v
        normalized == Normalized(language, result, now)
        dispatched == <<"_validate_code_input", "_dispatch_analyze">>
    IN  IF Rejected(validation)
        THEN [out |-> Return(validation), trace |-> <<"_validate_code_input">>,
              contacted |-> "none", cache |-> cache, appended |-> <<>>]
        ELSE IF InError(result) = "raise"
        THEN [out |-> Raise("TypeError"), trace |-> dispatched,
              contacted |-> Route(language), cache |-> cache, appended |-> <<>>]
        ELSE IF InError(result) = "yes"
        THEN [out |-> Return(result), trace |-> dispatched,
              contacted |-> Route(language), cache |-> cache, appended |-> <<>>]
        ELSE IF result.t # "dict"
        THEN [out |-> Raise("AttributeError"), trace |-> dispatched,
              contacted |-> Route(language), cache |-> cache, appended |-> <<>>]
        ELSE [out |-> Return(normalized), trace |-> dispatched,
              contacted |-> Route(language),
              cache |-> CacheAppend(cache, AnalysisEntry(language, code, normalized, now)),
              appended |-> <<AnalysisEntry(language, code, normalized, now)>>]

(***************************************************************************)
(* summarize_flow                                                          *)
(***************************************************************************)
Path(label, n) == [label |-> label, n |-> n]

Has(seq, x) == \E i \in 1..Len(seq) : seq[i] = x

Prefix(seq, n) == SubSeq(seq, 1, IF Len(seq) < n THEN Len(seq) ELSE n)

\* lines 285-298
KeyPaths(branches) ==
    IF branches = 0 THEN <<Path("linear_path", 0)>>
    ELSE IF branches <= 3
    THEN [i \in 1..(IF branches > 1 THEN branches ELSE 1) |-> Path("conditional_path", i)]
    ELSE <<Path("happy_path", 0), Path("edge_case_paths", 0),
           Path("error_handling_paths", 0), Path("complex_branching", branches)>>

\* lines 301-326
EdgeCases(language, side_effects_, complexity_) ==
    <<"null/None/undefined inputs", "empty collections", "boundary values (0, -1, max)">>
    \o (IF language = JAVA
        THEN <<"NullPointerException scenarios", "IndexOutOfBoundsException", "ClassCastException">>
        ELSE IF language = PYTHON
        THEN <<"TypeError scenarios", "ValueError", "KeyError/IndexError">>
        ELSE IF language \in {TYPESCRIPT, JAVASCRIPT}
        THEN <<"undefined/null handling", "type coercion edge cases", "async/await errors">>
        ELSE <<>>)
    \o (IF Has(side_effects_, "io_operations") THEN <<"IO failures and timeouts">> ELSE <<>>)
    \o (IF Has(side_effects_, "network_operations") THEN <<"network connectivity issues">> ELSE <<>>)
    \o (IF Has(side_effects_, "database_operations")
        THEN <<"database connection/transaction failures">> ELSE <<>>)
    \o (IF Has(side_effects_, "async_operations")
        THEN <<"async operation failures and race conditions">> ELSE <<>>)
    \o (IF complexity_ > 5 THEN <<"high complexity execution paths">> ELSE <<>>)

\* lines 329-347
IoMatrix(inputs, outputs) ==
    IF Len(inputs) > 0
    THEN [i \in 1..Len(Prefix(inputs, 3)) |->
            [test_case |-> i, inputs |-> <<inputs[i]>>,
             expected_outputs |-> IF Len(outputs) > 0 THEN outputs
                                  ELSE <<"<define based on business logic>">>]]
    ELSE <<[test_case |-> 0, inputs |-> <<"<no parameters>">>,
            expected_outputs |-> IF Len(outputs) > 0 THEN outputs
                                 ELSE <<"<define return value>">>]>>

\* line 360
NoMeaningfulOutput(outputs) ==
    Len(outputs) = 0 \/ outputs = <<"void", "None", "undefined">>

\* lines 350-376: the risks, then the recommendations
RisksAndRecommendations(branches, complexity_, outputs, side_effects_, nfunctions) ==
    LET r1 == IF branches = 0 THEN <<"no conditional branches detected">>
              ELSE IF branches > complexity_ * 2
              THEN <<"high branch count relative to complexity">> ELSE <<>>
        c1 == IF branches = 0 THEN <<"verify if boundary testing is needed">>
              ELSE IF branches > complexity_ * 2
              THEN <<"consider breaking down into smaller functions">> ELSE <<>>
        r2 == IF NoMeaningfulOutput(outputs)
              THEN <<"no meaningful return value detected">> ELSE <<>>
        c2 == IF NoMeaningfulOutput(outputs)
              THEN <<"verify expected outputs and side effects">> ELSE <<>>
        r3 == IF Len(side_effects_) > 0 THEN <<"side effects detected">> ELSE <<>>
        c3 == IF Len(side_effects_) > 0
              THEN <<"ensure proper mocking/stubbing for side effects in tests">> ELSE <<>>
        r4 == IF complexity_ > 10 THEN <<"high cyclomatic complexity">> ELSE <<>>
        c4 == IF complexity_ > 10
              THEN <<"consider refactoring to reduce complexity">> ELSE <<>>
        c5 == IF nfunctions > 1
              THEN <<"test each function separately and integration scenarios">> ELSE <<>>
        risks == r1 \o r2 \o r3 \o r4
    IN  [risks |-> IF Len(risks) = 0
                   THEN <<"low risk - straightforward function structure">> ELSE risks,
         recommendations |-> c1 \o c2 \o c3 \o c4 \o c5]

\* lines 380-387: the values the overview renders
Overview(language, fns, inputs, outputs, complexity_, branches, side_effects_) ==
    [language |-> language,
     func_names |-> IF Len(fns) > 0 THEN [i \in 1..Len(fns) |-> Get(fns[i], "name", "unknown")]
                    ELSE <<"<unnamed>">>,
     n_inputs |-> Len(inputs), preview |-> Prefix(inputs, 2), more |-> Len(inputs) > 2,
     outputs |-> outputs, complexity |-> complexity_, branches |-> branches,
     n_side_effects |-> Len(side_effects_)]

\* a summary that depends on the analysis cache
SummarizeFlowStateful(analysis) ==
    Return(PyDict([metrics |-> [functions_count |-> Len(last_analyses)]]))

\* lines 268-407: the value returned, or the exception raised
SummarizeFlow(analysis) ==
    IF analysis.t # "dict"
    THEN Return(ErrorDict(Msg("Analysis must be a dictionary object", "")))
    ELSE IF "error" \in DOMAIN analysis.d
    THEN Return(ErrorDict(Msg("Cannot summarize failed analysis: ", analysis.d.error)))
    ELSE
      LET a == analysis.d
          complexity_ == Get(a, "complexity", 0)
          branches == Get(a, "branches", 0)
          fns == Get(a, "functions", <<>>)
          inputs == Get(a, "inputs", <<>>)
          outputs == Get(a, "outputs", <<>>)
          side_effects_ == Get(a, "side_effects", <<>>)
          language == Get(a, "language", UNKNOWN)
          rr == RisksAndRecommendations(branches, complexity_, outputs, side_effects_, Len(fns))
      IN  IF ~Get(a, "branches_is_num", TRUE)
          THEN Raise("TypeError")
          ELSE Return(PyDict(
                 [overview |-> Overview(language, fns, inputs, outputs, complexity_,
                                        branches, side_effects_),
                  key_paths |-> KeyPaths(branches),
                  edge_cases |-> EdgeCases(language, side_effects_, complexity_),
                  io_matrix |-> IoMatrix(inputs, outputs),
                  risks |-> rr.risks,
                  recommendations |-> rr.recommendations,
                  metrics |-> [complexity |-> complexity_, branches |-> branches,
                               functions_count |-> Len(fns),
                               inputs_count |-> Len(inputs),
                               outputs_count |-> Len(outputs),
                               side_effects_count |-> Len(side_effects_)]]))

(***************************************************************************)
(* build_prompt                                                            *)
(***************************************************************************)
\* a test_framework argument that is not hashable (a list)
TF_LIST == "<list>"

\* lines 433-439
FrameworkMap(language) ==
    CASE language = JAVA -> "junit5"
      [] language = PYTHON -> "pytest"
      [] language = TYPESCRIPT -> "jest"
      [] language = JAVASCRIPT -> "jest"
      [] OTHER -> "generic"

\* lines 431-439
ResolveFramework(flow, test_framework) ==
    LET language == Get(Get(flow.d, "metrics", <<>>), "language", UNKNOWN)
    IN  IF test_framework = "auto" THEN FrameworkMap(language) ELSE test_framework

\* lines 470-478
BaseGuardrails ==
    <<"Generate ONLY executable test code without explanations",
      "Cover ALL execution paths identified in key_paths",
      "Include test cases for ALL edge cases listed",
      "Use exact function/class names from original code - DO NOT rename",
      "Add meaningful assertions for each scenario",
      "Include necessary imports and dependencies",
      "Create one test method per logical scenario">>

\* lines 442-467 and the lookup of line 480: framework_guardrails.get(test_framework, [])
FrameworkGuardrails(framework) ==
    CASE framework = "junit5" ->
           <<"Use JUnit 5 annotations (@Test, @BeforeEach, @AfterEach, @DisplayName)",
             "Use assertThat() from AssertJ or assertEquals() from JUnit",
             "Create @Mock objects for dependencies using Mockito",
             "Use @ParameterizedTest for multiple test cases">>
      [] framework = "pytest" ->
           <<"Use pytest fixtures for setup and teardown",
             "Use pytest.parametrize for multiple test cases",
             "Use assert statements for verification",
             "Use unittest.mock for mocking dependencies">>
      [] framework = "jest" ->
           <<"Use describe() and it() blocks for organization",
             "Use beforeEach() and afterEach() for setup/teardown",
             "Use jest.mock() and jest.spyOn() for mocking",
             "Use expect() assertions with appropriate matchers">>
      [] framework = "generic" ->
           <<"Use appropriate testing framework conventions",
             "Include proper setup and teardown",
             "Mock external dependencies",
             "Use descriptive test names">>
      [] OTHER -> <<>>

\* lines 508-557: the code skeleton appended to the prompt
Skeleton(framework) ==
    IF framework \in {"junit5", "pytest", "jest"} THEN framework ELSE "none"

\* lines 576-581
PromptMetadata(flow) ==
    [paths_to_cover |-> Len(Get(flow.d, "key_paths", <<>>)),
     edge_cases_to_test |-> Len(Get(flow.d, "edge_cases", <<>>)),
     io_scenarios |-> Len(Get(flow.d, "io_matrix", <<>>)),
     complexity_level |-> Get(Get(flow.d, "metrics", <<>>), "complexity", 0)]

\* lines 586-592 (the token estimate and the text preview are not modelled)
PromptEntry(framework, flow, now) ==
    [timestamp |-> now, test_framework |-> framework, metadata |-> PromptMetadata(flow)]

\* lines 424-596: the outcome the prompt cache the call leaves and the
\* entry it appended
BuildPrompt(flow, test_framework, now, cache) ==
    IF flow.t # "dict"
    THEN [out |-> Return(ErrorDict(Msg("Flow must be a dictionary object", ""))),
          cache |-> cache, appended |-> <<>>]
    ELSE IF "error" \in DOMAIN flow.d
    THEN [out |-> Return(ErrorDict(Msg("Cannot build prompt from failed flow analysis: ",
                                       flow.d.error))),
          cache |-> cache, appended |-> <<>>]
    ELSE IF test_framework = TF_LIST
    THEN [out |-> Raise("TypeError"), cache |-> cache, appended |-> <<>>]
    ELSE
      LET framework == ResolveFramework(flow, test_framework)
          guardrails == BaseGuardrails \o FrameworkGuardrails(framework)
      IN  [out |-> Return(PyDict(
                     [prompt |-> [framework |-> framework,
                                  overview |-> Get(flow.d, "overview", "Analysis not available"),
                                  guardrails |-> guardrails,
                                  skeleton |-> Skeleton(framework)],
                      test_framework |-> framework,
                      guardrails |-> guardrails,
                      metadata |-> PromptMetadata(flow)])),
           cache |-> CacheAppend(cache, PromptEntry(framework, flow, now)),
           appended |-> <<PromptEntry(framework, flow, now)>>]

(***************************************************************************)
(* run_full_pipeline                                                       *)
(***************************************************************************)
\* lines 619-621
TargetLang(language) ==
    IF Lower(language) \in {TS, TYPESCRIPT, JS, JAVASCRIPT}
    THEN TYPESCRIPT ELSE Lower(language)

\* line 623: availability.get(target_lang, False)
Available(availability, target) ==
    CASE target = JAVA -> availability.java
      [] target = PYTHON -> availability.python
      [] target = TYPESCRIPT -> availability.typescript
      [] OTHER -> FALSE

\* lines 623-624
Warnings(language, availability) ==
    IF ~Available(availability, TargetLang(language))
    THEN <<Msg("Runtime may not be available: ", language)>> ELSE <<>>

HasNoError(v) == InError(v) # "yes"

\* a count that leaves the third stage out
StepsCompletedNoPrompt(analysis, flow, prompt) ==
    (IF HasNoError(analysis) THEN 1 ELSE 0)
    + (IF HasNoError(flow) THEN 1 ELSE 0)

\* lines 671-677
StepsCompleted(analysis, flow, prompt) ==
    (IF HasNoError(analysis) THEN 1 ELSE 0)
    + (IF HasNoError(flow) THEN 1 ELSE 0)
    + (IF HasNoError(prompt) THEN 1 ELSE 0)

SuccessLax(steps_completed, errors) == steps_completed >= 2

\* line 694
Success(steps_completed, errors) == steps_completed = TotalSteps /\ Len(errors) = 0

\* lines 631-642
EarlyResult(analysis, errors, warnings, now) ==
    PyDict([analysis |-> analysis, errors |-> errors, warnings |-> warnings,
            meta |-> [started_at |-> now, finished_at |-> now,
                      steps_completed |-> 0, success |-> FALSE]])

\* lines 646-652: stage 2, the flow payload and the errors it adds
Stage2(analysis) ==
    LET r == SummarizeFlow(analysis)
    IN  IF r.k = "raise"
        THEN [flow |-> ErrorDict(Msg("Flow summary failed: ", r.exc)),
              errors |-> <<Msg("Flow summary exception: ", r.exc)>>]
        ELSE IF "error" \in DOMAIN r.v.d
        THEN [flow |-> r.v, errors |-> <<Msg("Flow summary failed: ", r.v.d.error)>>]
        ELSE [flow |-> r.v, errors |-> <<>>]

Stage3Unguarded(flow, test_framework, now, cache) ==
    LET r == BuildPrompt(flow, test_framework, now, cache)
    IN  IF r.out.k = "raise"
        THEN [prompt |-> ErrorDict(Msg("Prompt build failed: ", r.out.exc)),
              errors |-> <<Msg("Prompt generation exception: ", r.out.exc)>>,
              cache |-> r.cache, appended |-> r.appended, trace |-> <<"build_prompt">>]
        ELSE IF "error" \in DOMAIN r.out.v.d
        THEN [prompt |-> r.out.v,
              errors |-> <<Msg("Prompt build failed: ", r.out.v.d.error)>>,
              cache |-> r.cache, appended |-> r.appended, trace |-> <<"build_prompt">>]
        ELSE [prompt |-> r.out.v, errors |-> <<>>,
              cache |-> r.cache, appended |-> r.appended, trace |-> <<"build_prompt">>]

\* lines 656-666: stage 3, the prompt payload, the errors it adds, the prompt
\* cache it leaves and the functions it invoked
Stage3(flow, test_framework, now, cache) ==
    IF "error" \in DOMAIN flow.d
    THEN [prompt |-> ErrorDict(Msg("Skipped due to flow summary failure", "")),
          errors |-> <<Msg("Prompt generation skipped", "")>>,
          cache |-> cache, appended |-> <<>>, trace |-> <<>>]
    ELSE
      LET r == BuildPrompt(flow, test_framework, now, cache)
      IN  IF r.out.k = "raise"
          THEN [prompt |-> ErrorDict(Msg("Prompt build failed: ", r.out.exc)),
                errors |-> <<Msg("Prompt generation exception: ", r.out.exc)>>,
                cache |-> r.cache, appended |-> r.appended, trace |-> <<"build_prompt">>]
          ELSE IF "error" \in DOMAIN r.out.v.d
          THEN [prompt |-> r.out.v,
                errors |-> <<Msg("Prompt build failed: ", r.out.v.d.error)>>,
                cache |-> r.cache, appended |-> r.appended, trace |-> <<"build_prompt">>]
          ELSE [prompt |-> r.out.v, errors |-> <<>>,
                cache |-> r.cache, appended |-> r.appended, trace |-> <<"build_prompt">>]

\* lines 668-699: the result once the three stages have run
FullResult(language, test_framework, availability, now, warnings, a, s2, s3) ==
    LET analysis == a.out.v
        errors == s2.errors \o s3.errors
        steps_completed == StepsCompleted(analysis, s2.flow, s3.prompt)
    IN  [out |-> Return(PyDict(
                   [analysis |-> analysis, flow |-> s2.flow, prompt |-> s3.prompt,
                    errors |-> errors, warnings |-> warnings,
                    runtime_status |-> availability,
                    meta |-> [started_at |-> now, finished_at |-> now,
                              language |-> language,
                              test_framework |-> test_framework,
                              steps_completed |-> steps_completed,
                              total_steps |-> TotalSteps,
                              success |-> Success(steps_completed, errors)]])),
         trace |-> <<"_check_runtime_availability", "analyze_function">> \o a.trace
                     \o <<"summarize_flow">> \o s3.trace,
         contacted |-> a.contacted,
         analyses |-> a.cache, prompts |-> s3.cache,
         appended_analyses |-> a.appended, appended_prompts |-> s3.appended]

\* lines 644-666: stages 2 and 3, each value bound once
AfterStage2(language, test_framework, availability, now, prompts, warnings, a, s2) ==
    CHOOSE r \in {FullResult(language, test_framework, availability, now, warnings, a, s2, s3) :
                    s3 \in {Stage3(s2.flow, test_framework, now, prompts)}} : TRUE

AfterStage1NoStop(language, test_framework, availability, now, prompts, warnings, a) ==
    IF a.out.k = "raise"
    THEN [out |-> a.out,
          trace |-> <<"_check_runtime_availability", "analyze_function">> \o a.trace,
          contacted |-> a.contacted, analyses |-> a.cache, prompts |-> prompts,
          appended_analyses |-> a.appended, appended_prompts |-> <<>>]
    ELSE CHOOSE r \in {AfterStage2(language, test_framework, availability, now,
                                   prompts, warnings, a, s2) :
                         s2 \in {Stage2(a.out.v)}} : TRUE

\* lines 629-666: what follows the call of analyze_function, whose outcome is a
AfterStage1(language, test_framework, availability, now, prompts, warnings, a) ==
    LET head == <<"_check_runtime_availability", "analyze_function">> \o a.trace
        stopped == [trace |-> head, contacted |-> a.contacted,
                    analyses |-> a.cache, prompts |-> prompts,
                    appended_analyses |-> a.appended, appended_prompts |-> <<>>]
    IN  IF a.out.k = "raise"
        THEN [out |-> a.out] @@ stopped
        ELSE IF InError(a.out.v) = "raise"
        THEN [out |-> Raise("TypeError")] @@ stopped
        ELSE IF InError(a.out.v) = "yes" /\ a.out.v.t # "dict"
        THEN [out |-> Raise("TypeError")] @@ stopped
        ELSE IF InError(a.out.v) = "yes"
        THEN [out |-> Return(EarlyResult(a.out.v,
                                         <<Msg("Analysis failed: ", a.out.v.d.error)>>,
                                         warnings, now))] @@ stopped
        ELSE CHOOSE r \in {AfterStage2(language, test_framework, availability, now,
                                       prompts, warnings, a, s2) :
                             s2 \in {Stage2(a.out.v)}} : TRUE

\* lines 611-699: the outcome, the functions invoked, the backend contacted,
\* the two caches the call leaves and the entries it appended
RunFullPipeline(language, code, test_framework, availability, env, now, analyses, prompts) ==
    CHOOSE r \in {AfterStage1(language, test_framework, availability, now, prompts,
                              Warnings(language, availability), a) :
                    a \in {AnalyzeFunction(language, code, env, now, analyses)}} : TRUE

(***************************************************************************)
(* get_last_analyses                                                       *)
(***************************************************************************)
\* line 709: the numerator and the denominator of success_rate
SuccessRate(cache) ==
    [successes |-> Cardinality({i \in 1..Len(cache) : Get(cache[i], "success", FALSE)}),
     out_of |-> IF Len(cache) > 1 THEN Len(cache) ELSE 1]

\* lines 705-710
GetLastAnalyses(cache) ==
    [count |-> Len(cache), analyses |-> cache, success_rate |-> SuccessRate(cache)]

(***************************************************************************)
(* The tool calls.  Calls run one at a time; each reads the clock once.    *)
(* ret records the last call: its arguments, its outcome, the functions it *)
(* invoked and the backend it contacted.  hist_analyses and hist_prompts   *)
(* record every entry ever appended to each cache.                         *)
(***************************************************************************)
NoEnv == Env("unused", PyNull)

Languages == {JAVA, PYTHON, PYTHON_CAP, TYPESCRIPT, JS, RUBY}

EmptyCode == Code(0, 0, 0)
BlankCode == Code(3, 0, 0)
SmallCode == Code(2, 10, 0)
LongCode == Code(0, MaxCodeLen + 1, 0)
WideCode == Code(0, 0, 30000)

Codes == {EmptyCode, BlankCode, SmallCode, LongCode, WideCode}

Frameworks == {"auto", "pytest", "junit", TF_LIST}
PipelineFrameworks == {"auto", TF_LIST}

Availability(java, python, typescript) ==
    [java |-> java, python |-> python, typescript |-> typescript]

Availabilities == {Availability(TRUE, TRUE, TRUE), Availability(FALSE, TRUE, FALSE)}

\* the environment is consulted only when the call reaches a backend
EnvsFor(language, code, envs) ==
    IF Rejected(ValidateCodeInput(code)) \/ Route(language) = "none"
    THEN {NoEnv}
    ELSE {env \in envs : EnvFits(Route(language), env)}

SampleAnalyses ==
    {Normalized(PYTHON, BodyOneBranch, 0), Normalized(JS, BodyComplex, 0),
     Normalized(JAVA, BodyBadTypes, 0), BodyError, BodyList}

SampleFlows ==
    {SummarizeFlow(Normalized(PYTHON, BodyOneBranch, 0)).v,
     SummarizeFlow(Normalized(JS, BodyComplex, 0)).v,
     ErrorDict(Msg("Cannot summarize failed analysis: ", "")), PyNull}

ServerInit ==
    /\ last_analyses = <<>>
    /\ last_prompts = <<>>
    /\ clock = 0
    /\ ret = [op |-> "none"]
    /\ hist_analyses = <<>>
    /\ hist_prompts = <<>>
    /\ hist_summaries = {}

AnalyzeStep(languages, codes, envs, bound) ==
    /\ clock < bound
    /\ \E language \in languages, code \in codes :
         \E env \in EnvsFor(language, code, envs) :
           LET r == AnalyzeFunction(language, code, env, clock + 1, last_analyses)
           IN  /\ ret' = [op |-> "analyze_function",
                          args |-> [language |-> language, code |-> code, env |-> env],
                          out |-> r.out, trace |-> r.trace, contacted |-> r.contacted]
               /\ last_analyses' = r.cache
               /\ hist_analyses' = hist_analyses \o r.appended
    /\ clock' = clock + 1
    /\ UNCHANGED <<last_prompts, hist_prompts, hist_summaries>>

SummarizeStep(analyses, bound) ==
    /\ clock < bound
    /\ \E analysis \in analyses :
         /\ ret' = [op |-> "summarize_flow", args |-> [analysis |-> analysis],
                    out |-> SummarizeFlow(analysis), trace |-> <<>>, contacted |-> "none"]
         /\ hist_summaries' = hist_summaries \cup
                                 {[analysis |-> analysis, out |-> SummarizeFlow(analysis),
                                   at |-> clock + 1]}
    /\ clock' = clock + 1
    /\ UNCHANGED <<last_analyses, last_prompts, hist_analyses, hist_prompts>>

BuildStep(flows, frameworks, bound) ==
    /\ clock < bound
    /\ \E flow \in flows, test_framework \in frameworks :
         LET r == BuildPrompt(flow, test_framework, clock + 1, last_prompts)
         IN  /\ ret' = [op |-> "build_prompt",
                        args |-> [flow |-> flow, test_framework |-> test_framework],
                        out |-> r.out, trace |-> <<>>, contacted |-> "none"]
             /\ last_prompts' = r.cache
             /\ hist_prompts' = hist_prompts \o r.appended
    /\ clock' = clock + 1
    /\ UNCHANGED <<last_analyses, hist_analyses, hist_summaries>>

PipelineStep(languages, codes, frameworks, availabilities, envs, bound) ==
    /\ clock < bound
    /\ \E language \in languages, code \in codes, test_framework \in frameworks,
          availability \in availabilities :
         \E env \in EnvsFor(language, code, envs) :
           LET r == RunFullPipeline(language, code, test_framework, availability, env,
                                    clock + 1, last_analyses, last_prompts)
           IN  /\ ret' = [op |-> "run_full_pipeline",
                          args |-> [language |-> language, code |-> code, env |-> env,
                                    test_framework |-> test_framework,
                                    availability |-> availability],
                          out |-> r.out, trace |-> r.trace, contacted |-> r.contacted]
               /\ last_analyses' = r.analyses
               /\ last_prompts' = r.prompts
               /\ hist_analyses' = hist_analyses \o r.appended_analyses
               /\ hist_prompts' = hist_prompts \o r.appended_prompts
    /\ clock' = clock + 1
    /\ UNCHANGED hist_summaries

AnalyzeFunctionCall ==
    AnalyzeStep(Languages, Codes, Envs, MaxCalls) /\ UNCHANGED <<analyzer_vars, thread_vars>>

SummarizeFlowCall ==
    SummarizeStep(SampleAnalyses, MaxCalls) /\ UNCHANGED <<analyzer_vars, thread_vars>>

BuildPromptCall ==
    BuildStep(SampleFlows, Frameworks, MaxCalls) /\ UNCHANGED <<analyzer_vars, thread_vars>>

RunFullPipelineCall ==
    PipelineStep(Languages, Codes, PipelineFrameworks, Availabilities, Envs, MaxCalls)
      /\ UNCHANGED <<analyzer_vars, thread_vars>>

(***************************************************************************)
(* The caches under long runs of successful calls.                         *)
(***************************************************************************)
CacheAnalyze ==
    AnalyzeStep({PYTHON}, {SmallCode}, {Env("ok", BodyOneBranch)}, MaxAppends)
      /\ UNCHANGED <<analyzer_vars, thread_vars>>

CachePrompt ==
    BuildStep({SummarizeFlow(Normalized(PYTHON, BodyOneBranch, 0)).v}, {"auto"}, MaxAppends)
      /\ UNCHANGED <<analyzer_vars, thread_vars>>

(***************************************************************************)
(* Invocations that overlap.  Each thread runs one successful              *)
(* analyze_function or build_prompt call and may be suspended between any  *)
(* two of the steps of lines 242-250 (586-593): the global is loaded, the  *)
(* entry is appended to the loaded list, the global is loaded again, the   *)
(* loaded list is sliced into a new list, the new list is bound to the     *)
(* global.  A thread refers to the list bound to the global as 0 and to a  *)
(* list that was bound when the thread loaded it, and no longer is, by its *)
(* index in retired.                                                       *)
(***************************************************************************)
Deref(cache, ref) == IF ref = 0 THEN cache ELSE retired[ref]

\* the threads that hold the list a store is about to unbind
Holders(state) == {t \in Threads : pc[t] \in state /\ snapshot[t].ref = 0}

\* LOAD_GLOBAL of lines 242 and 586
LoadStep(t, from, to) ==
    /\ pc[t] = from
    /\ pc' = [pc EXCEPT ![t] = to]
    /\ snapshot' = [snapshot EXCEPT ![t].ref = 0]
    /\ UNCHANGED <<retired, clock>>

\* the list the append leaves bound to the global, and the retired lists
AppendStep(t, entry, from, to) ==
    /\ pc[t] = from
    /\ pc' = [pc EXCEPT ![t] = to]
    /\ retired' = IF snapshot[t].ref = 0 THEN retired
                  ELSE [retired EXCEPT ![snapshot[t].ref] = Append(@, entry)]
    /\ clock' = clock + 1
    /\ UNCHANGED snapshot

AppendedTo(t, cache, entry) ==
    IF snapshot[t].ref = 0 THEN Append(cache, entry) ELSE cache

\* the slice of lines 250 and 593
SliceStep(t, cache, from, to) ==
    /\ pc[t] = from
    /\ pc' = [pc EXCEPT ![t] = to]
    /\ snapshot' = [snapshot EXCEPT ![t].val = Truncate(Deref(cache, snapshot[t].ref))]
    /\ UNCHANGED <<retired, clock>>

\* STORE_GLOBAL of lines 250 and 593
StoreStep(t, cache, loaded, from, to) ==
    /\ pc[t] = from
    /\ pc' = [pc EXCEPT ![t] = to]
    /\ retired' = Append(retired, cache)
    /\ snapshot' = [u \in Threads |->
                      IF u \in Holders(loaded)
                      THEN [snapshot[u] EXCEPT !.ref = Len(retired) + 1]
                      ELSE snapshot[u]]
    /\ UNCHANGED clock

ThreadAnalysisEntry(now) ==
    AnalysisEntry(PYTHON, SmallCode, Normalized(PYTHON, BodyOneBranch, now), now)

ThreadPromptEntry(now) ==
    PromptEntry("generic", SummarizeFlow(Normalized(PYTHON, BodyOneBranch, 0)).v, now)

AnalyzeLoaded == {"a_load", "a_reload"}
BuildLoaded == {"b_load", "b_reload"}

AnalyzeLoad(t) ==
    /\ LoadStep(t, "idle", "a_load")
    /\ UNCHANGED <<last_analyses, last_prompts, ret, hist_analyses, hist_prompts,
                   hist_summaries, analyzer_vars>>

AnalyzeAppend(t) ==
    /\ AppendStep(t, ThreadAnalysisEntry(clock + 1), "a_load", "a_appended")
    /\ last_analyses' = AppendedTo(t, last_analyses, ThreadAnalysisEntry(clock + 1))
    /\ hist_analyses' = Append(hist_analyses, ThreadAnalysisEntry(clock + 1))
    /\ UNCHANGED <<last_prompts, ret, hist_prompts, hist_summaries, analyzer_vars>>

AnalyzeReload(t) ==
    /\ LoadStep(t, "a_appended", "a_reload")
    /\ UNCHANGED <<last_analyses, last_prompts, ret, hist_analyses, hist_prompts,
                   hist_summaries, analyzer_vars>>

AnalyzeSlice(t) ==
    /\ SliceStep(t, last_analyses, "a_reload", "a_sliced")
    /\ UNCHANGED <<last_analyses, last_prompts, ret, hist_analyses, hist_prompts,
                   hist_summaries, analyzer_vars>>

AnalyzeStore(t) ==
    /\ StoreStep(t, last_analyses, AnalyzeLoaded, "a_sliced", "done")
    /\ last_analyses' = snapshot[t].val
    /\ UNCHANGED <<last_prompts, ret, hist_analyses, hist_prompts,
                   hist_summaries, analyzer_vars>>

BuildLoad(t) ==
    /\ LoadStep(t, "idle", "b_load")
    /\ UNCHANGED <<last_analyses, last_prompts, ret, hist_analyses, hist_prompts,
                   hist_summaries, analyzer_vars>>

BuildAppend(t) ==
    /\ AppendStep(t, ThreadPromptEntry(clock + 1), "b_load", "b_appended")
    /\ last_prompts' = AppendedTo(t, last_prompts, ThreadPromptEntry(clock + 1))
    /\ hist_prompts' = Append(hist_prompts, ThreadPromptEntry(clock + 1))
    /\ UNCHANGED <<last_analyses, ret, hist_analyses, hist_summaries, analyzer_vars>>

BuildReload(t) ==
    /\ LoadStep(t, "b_appended", "b_reload")
    /\ UNCHANGED <<last_analyses, last_prompts, ret, hist_analyses, hist_prompts,
                   hist_summaries, analyzer_vars>>

BuildSlice(t) ==
    /\ SliceStep(t, last_prompts, "b_reload", "b_sliced")
    /\ UNCHANGED <<last_analyses, last_prompts, ret, hist_analyses, hist_prompts,
                   hist_summaries, analyzer_vars>>

BuildStore(t) ==
    /\ StoreStep(t, last_prompts, BuildLoaded, "b_sliced", "done")
    /\ last_prompts' = snapshot[t].val
    /\ UNCHANGED <<last_analyses, ret, hist_analyses, hist_prompts,
                   hist_summaries, analyzer_vars>>

\* the caches after k calls run one at a time
Prefilled(k) ==
    /\ last_analyses = [i \in 1..k |-> ThreadAnalysisEntry(i)]
    /\ last_prompts = [i \in 1..k |-> ThreadPromptEntry(i)]
    /\ hist_analyses = last_analyses
    /\ hist_prompts = last_prompts
    /\ hist_summaries = {}
    /\ clock = k
    /\ ret = [op |-> "none"]

(***************************************************************************)
(* summarize_flow between other tool calls.                                *)
(***************************************************************************)
FlowSummarize ==
    SummarizeStep(SampleAnalyses, MaxFlowCalls)
      /\ UNCHANGED <<analyzer_vars, thread_vars>>

FlowAnalyze ==
    AnalyzeStep({PYTHON}, {SmallCode, BlankCode},
                {Env("ok", BodyOneBranch), Env("timeout", PyNull)}, MaxFlowCalls)
      /\ UNCHANGED <<analyzer_vars, thread_vars>>

FlowBuild ==
    BuildStep({SummarizeFlow(Normalized(PYTHON, BodyOneBranch, 0)).v}, {"auto"}, MaxFlowCalls)
      /\ UNCHANGED <<analyzer_vars, thread_vars>>

FlowPipeline ==
    PipelineStep({PYTHON}, {SmallCode}, {"auto"}, {Availability(TRUE, TRUE, TRUE)},
                 {Env("ok", BodyComplex)}, MaxFlowCalls)
      /\ UNCHANGED <<analyzer_vars, thread_vars>>

(***************************************************************************)
(* PythonCodeAnalyzer: one traversal of a syntax tree.  The tree is drawn  *)
(* as the traversal meets it: a function definition is entered and left,   *)
(* the statements met in between lie in its body.  FunctionInfo            *)
(* dictionaries live in heap and are referred to by index (0 is None);     *)
(* frames holds the locals of the visit_FunctionDef calls in progress.     *)
(***************************************************************************)
NewFuncInfoNoBase(name) == [name |-> name, branches |-> 0, local_complexity |-> 0]

\* lines 40-48
NewFuncInfo(name) == [name |-> name, branches |-> 0, local_complexity |-> 1]

\* a count that leaves the try statement itself out
TryBranchesHandlersOnly(handlers, orelse, finalbody) ==
    handlers + (IF orelse THEN 1 ELSE 0) + (IF finalbody THEN 1 ELSE 0)

\* lines 104-108
TryBranches(handlers, orelse, finalbody) ==
    1 + handlers + (IF orelse THEN 1 ELSE 0) + (IF finalbody THEN 1 ELSE 0)

\* lines 78-80, 86-88, 94-96, 102-111:  if self.current_function: ... += n
Count(h, cf, n) ==
    IF cf # 0
    THEN [h EXCEPT ![cf].branches = @ + n, ![cf].local_complexity = @ + n]
    ELSE h

\* lines 123-137
CallEffect(kind, name) ==
    IF kind = "Name"
    THEN IF name \in {"print", "open", "input", "exec", "eval"} THEN {"io_operations"}
         ELSE IF name \in {"setattr", "delattr", "globals", "locals"}
         THEN {"state_modification"} ELSE {}
    ELSE IF name \in {"write", "read", "append", "close", "flush"} THEN {"io_operations"}
         ELSE IF name \in {"send", "get", "post", "put", "delete"}
         THEN {"network_operations"}
         ELSE IF name \in {"commit", "rollback", "execute"}
         THEN {"database_operations"} ELSE {}

CallSamples == {<<"Name", "print">>, <<"Name", "len">>, <<"Attribute", "commit">>}

\* the scope pointer reset instead of restored
RestoreNone(top) == 0

\* line 67
Restore(top) == top.prev_function

\* The constructs met so far, by the function definition whose body they lie
\* in: tally[i] counts those whose innermost enclosing definition is the one
\* that heap[i] describes; parent is the definition that encloses it (0 at
\* module level) and late counts the constructs met in its body after a
\* definition nested in it has ended.
NoConstructs ==
    [conditionals |-> 0, loops |-> 0, tries |-> 0, handlers |-> 0,
     orelses |-> 0, finalbodies |-> 0, late |-> 0, parent |-> 0]

Enclosing == IF frames = <<>> THEN 0 ELSE frames[Len(frames)].func_info

NestedEnded(t, f) == \E i \in 1..Len(functions) : t[functions[i]].parent = f

Met(t, c) ==
    IF Enclosing = 0 THEN t
    ELSE [t EXCEPT ![Enclosing] =
            [conditionals |-> @.conditionals + c.conditionals,
             loops |-> @.loops + c.loops,
             tries |-> @.tries + c.tries,
             handlers |-> @.handlers + c.handlers,
             orelses |-> @.orelses + c.orelses,
             finalbodies |-> @.finalbodies + c.finalbodies,
             late |-> @.late + (IF NestedEnded(t, Enclosing) THEN 1 ELSE 0),
             parent |-> @.parent]]

AnalyzerInit ==
    /\ functions = <<>>
    /\ current_function = 0
    /\ total_branches = 0
    /\ complexity = 0
    /\ side_effects = {}
    /\ heap = <<>>
    /\ frames = <<>>
    /\ visited = 0
    /\ returned = PyNull
    /\ tally = <<>>

Traversing == returned = PyNull

\* lines 38-56 (and line 73): visit_FunctionDef up to the visit of the body
EnterFunctionDef ==
    /\ Traversing
    /\ Len(heap) < MaxFunctions
    /\ \E is_async \in BOOLEAN :
         frames' = Append(frames, [func_info |-> Len(heap) + 1,
                                   prev_function |-> current_function,
                                   is_async |-> is_async])
    /\ heap' = Append(heap, NewFuncInfo(Len(heap) + 1))
    /\ current_function' = Len(heap) + 1
    /\ tally' = Append(tally, [NoConstructs EXCEPT !.parent = Enclosing])
    /\ UNCHANGED <<functions, total_branches, complexity, side_effects, visited, returned>>

\* lines 58-67 (and line 74): visit_FunctionDef after the visit of the body
ExitFunctionDef ==
    /\ Traversing
    /\ Len(frames) > 0
    /\ LET top == frames[Len(frames)]
           fi == top.func_info
           h == [heap EXCEPT ![fi].branches = heap[current_function].branches,
                             ![fi].local_complexity = heap[current_function].local_complexity]
       IN  /\ heap' = h
           /\ functions' = Append(functions, fi)
           /\ total_branches' = total_branches + h[fi].branches
           /\ complexity' = complexity + h[fi].local_complexity
           /\ current_function' = Restore(top)
           /\ side_effects' = IF top.is_async THEN side_effects \cup {"async_operations"}
                              ELSE side_effects
    /\ frames' = SubSeq(frames, 1, Len(frames) - 1)
    /\ UNCHANGED <<visited, returned, tally>>

\* lines 76-82
visit_If ==
    /\ Traversing
    /\ visited < MaxStatements
    /\ heap' = Count(heap, current_function, 1)
    /\ tally' = Met(tally, [NoConstructs EXCEPT !.conditionals = 1])
    /\ visited' = visited + 1
    /\ UNCHANGED <<functions, current_function, total_branches, complexity,
                   side_effects, frames, returned>>

\* lines 84-90
visit_For ==
    /\ Traversing
    /\ visited < MaxStatements
    /\ heap' = Count(heap, current_function, 1)
    /\ tally' = Met(tally, [NoConstructs EXCEPT !.loops = 1])
    /\ visited' = visited + 1
    /\ UNCHANGED <<functions, current_function, total_branches, complexity,
                   side_effects, frames, returned>>

\* lines 92-98
visit_While ==
    /\ Traversing
    /\ visited < MaxStatements
    /\ heap' = Count(heap, current_function, 1)
    /\ tally' = Met(tally, [NoConstructs EXCEPT !.loops = 1])
    /\ visited' = visited + 1
    /\ UNCHANGED <<functions, current_function, total_branches, complexity,
                   side_effects, frames, returned>>

\* lines 100-113: a try statement has a handler or a finally clause, and an
\* else clause only with a handler
visit_Try ==
    /\ Traversing
    /\ visited < MaxStatements
    /\ \E handlers \in 0..MaxHandlers, orelse \in BOOLEAN, finalbody \in BOOLEAN :
         /\ handlers > 0 \/ finalbody
         /\ orelse => handlers > 0
         /\ heap' = Count(heap, current_function, TryBranches(handlers, orelse, finalbody))
         /\ tally' = Met(tally, [NoConstructs EXCEPT !.tries = 1, !.handlers = handlers,
                                                    !.orelses = IF orelse THEN 1 ELSE 0,
                                                    !.finalbodies = IF finalbody THEN 1 ELSE 0])
    /\ visited' = visited + 1
    /\ UNCHANGED <<functions, current_function, total_branches, complexity,
                   side_effects, frames, returned>>

\* lines 115-118
visit_With ==
    /\ Traversing
    /\ visited < MaxStatements
    /\ side_effects' = side_effects \cup {"context_managers"}
    /\ visited' = visited + 1
    /\ UNCHANGED <<functions, current_function, total_branches, complexity,
                   heap, frames, returned, tally>>

\* lines 120-139
visit_Call ==
    /\ Traversing
    /\ visited < MaxStatements
    /\ \E c \in CallSamples : side_effects' = side_effects \cup CallEffect(c[1], c[2])
    /\ visited' = visited + 1
    /\ UNCHANGED <<functions, current_function, total_branches, complexity,
                   heap, frames, returned, tally>>

\* lines 25-32: the traversal is over (the inputs and outputs lists are not
\* modelled)
AnalyzeReturn ==
    /\ Traversing
    /\ frames = <<>>
    /\ returned' = PyDict([functions |-> [i \in 1..Len(functions) |-> heap[functions[i]]],
                         complexity |-> complexity,
                         branches |-> total_branches,
                         side_effects |-> side_effects])
    /\ UNCHANGED <<functions, current_function, total_branches, complexity,
                   side_effects, heap, frames, visited, tally>>

\* lines 33-34: ast.parse rejects the code
AnalyzeSyntaxError ==
    /\ Traversing
    /\ visited = 0 /\ heap = <<>>
    /\ returned' = ErrorDict(Msg("Syntax error: ", "invalid syntax"))
    /\ UNCHANGED <<functions, current_function, total_branches, complexity,
                   side_effects, heap, frames, visited, tally>>

\* no invocation is in progress
ThreadInit ==
    /\ pc = [t \in Threads |-> "idle"]
    /\ snapshot = [t \in Threads |-> [ref |-> 0, val |-> <<>>]]
    /\ retired = <<>>

Init == ServerInit /\ AnalyzerInit /\ ThreadInit

Next ==
    \/ AnalyzeFunctionCall
    \/ SummarizeFlowCall
    \/ BuildPromptCall
    \/ RunFullPipelineCall

Spec == Init /\ [][Next]_vars

NextCache == CacheAnalyze \/ CachePrompt

SpecCache == Init /\ [][NextCache]_vars

InitThreads ==
    /\ \E k \in {0, CacheCap} : Prefilled(k)
    /\ AnalyzerInit
    /\ ThreadInit

NextThreads ==
    \E t \in Threads :
       \/ AnalyzeLoad(t)
       \/ AnalyzeAppend(t)
       \/ AnalyzeReload(t)
       \/ AnalyzeSlice(t)
       \/ AnalyzeStore(t)
       \/ BuildLoad(t)
       \/ BuildAppend(t)
       \/ BuildReload(t)
       \/ BuildSlice(t)
       \/ BuildStore(t)

SpecThreads == InitThreads /\ [][NextThreads]_vars

NextFlow == FlowSummarize \/ FlowAnalyze \/ FlowBuild \/ FlowPipeline

SpecFlow == Init /\ [][NextFlow]_vars

NextAnalyzer ==
    \/ (EnterFunctionDef /\ UNCHANGED <<server_vars, thread_vars>>)
    \/ (ExitFunctionDef /\ UNCHANGED <<server_vars, thread_vars>>)
    \/ (visit_If /\ UNCHANGED <<server_vars, thread_vars>>)
    \/ (visit_For /\ UNCHANGED <<server_vars, thread_vars>>)
    \/ (visit_While /\ UNCHANGED <<server_vars, thread_vars>>)
    \/ (visit_Try /\ UNCHANGED <<server_vars, thread_vars>>)
    \/ (visit_With /\ UNCHANGED <<server_vars, thread_vars>>)
    \/ (visit_Call /\ UNCHANGED <<server_vars, thread_vars>>)
    \/ (AnalyzeReturn /\ UNCHANGED <<server_vars, thread_vars>>)
    \/ (AnalyzeSyntaxError /\ UNCHANGED <<server_vars, thread_vars>>)

SpecAnalyzer == Init /\ [][NextAnalyzer]_vars

(***************************************************************************)
(* Properties.                                                             *)
(***************************************************************************)
\* the most recent n elements of h, in order
LastN(h, n) ==
    LET m == IF Len(h) < n THEN Len(h) ELSE n
    IN  [i \in 1..m |-> h[Len(h) - m + i]]

Succeeded == ret.op # "none" /\ ret.out.k = "return" /\ InError(ret.out.v) = "no"

\* C1: after every successful analyze_function or build_prompt call, run one
\* at a time, the call's cache holds at most 10 entries, its last entry is the
\* entry this call appended, and its entries are the most recent appended
\* ones in insertion order.
C1_CacheBounded ==
    /\ Len(last_analyses) <= CacheCap
    /\ Len(last_prompts) <= CacheCap
    /\ last_analyses = LastN(hist_analyses, CacheCap)
    /\ last_prompts = LastN(hist_prompts, CacheCap)
    /\ (ret.op = "analyze_function" /\ Succeeded) =>
          /\ Len(last_analyses) > 0
          /\ last_analyses[Len(last_analyses)].timestamp = clock
          /\ last_analyses[Len(last_analyses)].result = ret.out.v
    /\ (ret.op = "build_prompt" /\ Succeeded) =>
          /\ Len(last_prompts) > 0
          /\ last_prompts[Len(last_prompts)].timestamp = clock
          /\ last_prompts[Len(last_prompts)].test_framework = ret.out.v.d.test_framework

\* an eleventh analysis has just been appended and the oldest one dropped
C1_Witness ==
    /\ ret.op = "analyze_function" /\ Succeeded
    /\ Len(hist_analyses) = CacheCap + 1
    /\ Len(last_analyses) = CacheCap
    /\ Len(last_prompts) > 0

PipelineReturned == ret.op = "run_full_pipeline" /\ ret.out.k = "return"

\* the payload of a stage in the returned result carries an error
StagePayloadError(key) ==
    key \in DOMAIN ret.out.v.d /\ InError(ret.out.v.d[key]) = "yes"

\* C2: in every result run_full_pipeline returns, meta.success is true iff
\* none of the three stage payloads carries an error and steps_completed = 3.
C2_SuccessIff ==
    PipelineReturned =>
       (ret.out.v.d.meta.success <=>
          /\ ~StagePayloadError("analysis")
          /\ ~StagePayloadError("flow")
          /\ ~StagePayloadError("prompt")
          /\ ret.out.v.d.meta.steps_completed = 3)

\* a pipeline whose third stage alone failed, and which reports no success
C2_Witness ==
    /\ PipelineReturned
    /\ ~StagePayloadError("analysis")
    /\ "flow" \in DOMAIN ret.out.v.d /\ ~StagePayloadError("flow")
    /\ StagePayloadError("prompt")
    /\ ~ret.out.v.d.meta.success

\* what the last call's analyze_function ended in
Stage1 ==
    AnalyzeFunction(ret.args.language, ret.args.code, ret.args.env, clock, <<>>).out

Stage1Error ==
    /\ ret.op = "run_full_pipeline"
    /\ Stage1.k = "return" /\ Stage1.v.t = "dict" /\ "error" \in DOMAIN Stage1.v.d

\* C3: when analyze_function yields an error inside run_full_pipeline, the
\* pipeline returns at once: steps_completed = 0, success = false, the
\* analysis error is carried, there is no flow and no prompt, and neither
\* summarize_flow nor build_prompt is invoked.
C3_Stage1Terminal ==
    Stage1Error =>
       /\ ret.out.k = "return"
       /\ ret.out.v.d.meta.steps_completed = 0
       /\ ret.out.v.d.meta.success = FALSE
       /\ ret.out.v.d.analysis = Stage1.v
       /\ ret.out.v.d.errors = <<Msg("Analysis failed: ", Stage1.v.d.error)>>
       /\ "flow" \notin DOMAIN ret.out.v.d
       /\ "prompt" \notin DOMAIN ret.out.v.d
       /\ ~Has(ret.trace, "summarize_flow")
       /\ ~Has(ret.trace, "build_prompt")

\* a pipeline whose backend timed out
C3_Witness ==
    /\ Stage1Error
    /\ ret.contacted # "none"
    /\ ret.args.env.transport = "timeout"

Stage1Ok ==
    /\ ret.op = "run_full_pipeline"
    /\ Stage1.k = "return" /\ InError(Stage1.v) = "no"

Stage2Failed ==
    /\ Stage1Ok
    /\ \/ SummarizeFlow(Stage1.v).k = "raise"
       \/ "error" \in DOMAIN SummarizeFlow(Stage1.v).v.d

\* C4: when summarize_flow fails inside run_full_pipeline, by an error or by
\* raising, build_prompt is not called and the prompt cache gets no entry,
\* the prompt is the synthetic "skipped" error, the errors list holds the
\* stage-2 error and then the skip error, and the result holds the
\* successful analysis.
C4_Stage2BlocksStage3 ==
    Stage2Failed =>
       /\ ret.out.k = "return"
       /\ ~Has(ret.trace, "build_prompt")
       /\ \A i \in 1..Len(hist_prompts) : hist_prompts[i].timestamp # clock
       /\ \A i \in 1..Len(last_prompts) : last_prompts[i].timestamp # clock
       /\ ret.out.v.d.prompt = ErrorDict(Msg("Skipped due to flow summary failure", ""))
       /\ Len(ret.out.v.d.errors) = 2
       /\ ret.out.v.d.errors[1].text \in {"Flow summary failed: ", "Flow summary exception: "}
       /\ ret.out.v.d.errors[2] = Msg("Prompt generation skipped", "")
       /\ InError(ret.out.v.d.flow) = "yes"
       /\ ret.out.v.d.analysis = Stage1.v

\* a pipeline whose analysis succeeded and whose summary raised
C4_Witness ==
    /\ Stage2Failed
    /\ ret.out.k = "return"
    /\ InError(ret.out.v.d.analysis) = "no"

\* C5: run_full_pipeline never propagates an exception to its caller.
C5_NeverRaises == ret.op = "run_full_pipeline" => ret.out.k = "return"

Dispatched ==
    /\ ret.op \in {"analyze_function", "run_full_pipeline"}
    /\ Has(ret.trace, "_dispatch_analyze")

\* what the last call's _dispatch_analyze ended in
Dispatch == DispatchAnalyze(ret.args.language, ret.args.code, ret.args.env)

CarriesError(v) == v.t = "dict" /\ "error" \in DOMAIN v.d

\* C6: _dispatch_analyze never raises; every failure class (unreachable,
\* timeout, bad status, empty body, malformed body, unsupported language)
\* gives a value carrying an error; a value without an error field is returned
\* only when the backend completed with an AnalysisResult-shaped response.
C6_DispatchClassifies ==
    Dispatched =>
       /\ Dispatch.k = "return"
       /\ (ret.args.env.transport # "ok") => CarriesError(Dispatch.v)
       /\ ~CarriesError(Dispatch.v) =>
             ret.args.env.transport = "ok" /\ AnalysisShaped(ret.args.env.body)

LanguageAliases == {TS, JS, JAVASCRIPT, TYPESCRIPT}

\* C7: analysing with tag js, ts or javascript reaches the backend that
\* typescript reaches and gives the language field that typescript gives.
C7_AliasesAgree ==
    (ret.op = "analyze_function" /\ Succeeded /\ Lower(ret.args.language) \in LanguageAliases) =>
       /\ ret.contacted = Route(TYPESCRIPT)
       /\ ret.out.v.d.language = LanguageField(TYPESCRIPT)

OnlyWhitespace(code) == code.ascii = 0 /\ code.wide = 0

\* C8: analyze_function on an empty or whitespace-only code returns a
\* validation error and never reaches _dispatch_analyze, whatever the tag.
C8_BlankRejected ==
    (ret.op \in {"analyze_function", "run_full_pipeline"} /\ OnlyWhitespace(ret.args.code)) =>
       /\ ~Has(ret.trace, "_dispatch_analyze")
       /\ ret.contacted = "none"
       /\ ret.op = "analyze_function" =>
             /\ ret.out.k = "return"
             /\ CarriesError(ret.out.v)
             /\ ret.out.v.d.error.text \in {"Code must be a non-empty string",
                                           "Code cannot be empty or only whitespace"}
       /\ ret.op = "run_full_pipeline" => Stage1Error

\* whitespace-only code given with a tag that has a backend
C8_Witness ==
    /\ ret.op = "analyze_function"
    /\ ret.args.code = BlankCode
    /\ Route(ret.args.language) = "typescript"
    /\ CarriesError(ret.out.v)

\* C9: code of more than 50,000 bytes gets the size-limit error before any
\* backend is invoked, the size being the encoded size in bytes.
C9_ByteLimit ==
    (ret.op = "analyze_function" /\ CodeBytes(ret.args.code) > MaxCodeLen) =>
       /\ ~Has(ret.trace, "_dispatch_analyze")
       /\ ret.contacted = "none"
       /\ ret.out.k = "return"
       /\ CarriesError(ret.out.v)
       /\ ret.out.v.d.error.text = "Code is too large (max 50KB allowed)"

AnalyzerReturned == returned.t = "dict" /\ "error" \notin DOMAIN returned.d

\* C10: for every parseable input, whatever the arrangement of sibling,
\* nested, sync and async definitions, the result of analyze has
\* branches >= 0 and complexity >= the number of entries of functions.
C10_Baseline ==
    AnalyzerReturned =>
       /\ returned.d.branches >= 0
       /\ returned.d.complexity >= Len(returned.d.functions)

\* an async definition nested in another one, with counted statements
C10_Witness ==
    /\ AnalyzerReturned
    /\ Len(returned.d.functions) >= 2
    /\ returned.d.functions[1].name > returned.d.functions[2].name
    /\ "async_operations" \in returned.d.side_effects
    /\ returned.d.branches > 0
    /\ returned.d.complexity > Len(returned.d.functions)

InFlight(states) == {t \in Threads : pc[t] \in states}

Entries(cache) == {cache[i] : i \in 1..Len(cache)}

AllDone == \A t \in Threads : pc[t] = "done"

\* C12: when invocations that append to the same cache overlap, append and
\* truncate-and-reassign are not atomic.  A cache holds more than 10 entries
\* only while an invocation is between its append and its reassignment, by at
\* most one entry for each such invocation; it holds only appended entries;
\* and it is back within 10 entries when all have finished.  Interleavings
\* exist in which the cap is exceeded and in which an appended entry is missing
\* once all invocations have finished.
C12_NotAtomic ==
    /\ Len(last_analyses) <= CacheCap
          + Cardinality(InFlight({"a_appended", "a_reload", "a_sliced"}))
    /\ Len(last_prompts) <= CacheCap
          + Cardinality(InFlight({"b_appended", "b_reload", "b_sliced"}))
    /\ Entries(last_analyses) \subseteq Entries(hist_analyses)
    /\ Entries(last_prompts) \subseteq Entries(hist_prompts)
    /\ AllDone => Len(last_analyses) <= CacheCap /\ Len(last_prompts) <= CacheCap

\* two overlapping analyze_function calls on an empty cache have both
\* finished and the entry one of them appended is not in the cache
C12_Witness ==
    /\ AllDone
    /\ Len(hist_analyses) >= 2
    /\ Len(hist_analyses) <= CacheCap
    /\ \E i \in 1..Len(hist_analyses) : hist_analyses[i] \notin Entries(last_analyses)

\* a cache observed two entries over the cap
C12_CapExceeded == Len(last_analyses) = CacheCap + 2

\* a build_prompt call on a summary that summarize_flow produced, which
\* returned a prompt
BuiltFromSummary ==
    /\ ret.op = "build_prompt"
    /\ ret.args.flow.t = "dict" /\ "overview" \in DOMAIN ret.args.flow.d
    /\ ret.out.k = "return" /\ InError(ret.out.v) = "no"

\* a pipeline call whose third stage returned a prompt
PipelineBuilt ==
    /\ PipelineReturned
    /\ "prompt" \in DOMAIN ret.out.v.d /\ InError(ret.out.v.d.prompt) = "no"

\* C13: with test_framework 'auto' on a summary of an analysis of language L,
\* the resolved framework is the table entry for L (java -> junit5,
\* python -> pytest, typescript/javascript -> jest), 'generic' only when L is
\* absent from the table, and never 'auto'.
C13_AutoResolves ==
    /\ (BuiltFromSummary /\ ret.args.test_framework = "auto") =>
          /\ ret.out.v.d.test_framework = FrameworkMap(ret.args.flow.d.overview.language)
          /\ ret.out.v.d.test_framework # "auto"
    /\ (PipelineBuilt /\ ret.args.test_framework = "auto") =>
          /\ ret.out.v.d.prompt.d.test_framework = FrameworkMap(ret.out.v.d.analysis.d.language)
          /\ ret.out.v.d.prompt.d.test_framework # "auto"

\* C14: every result run_full_pipeline returns, the early return after a
\* stage-1 failure included, holds the availability snapshot taken before
\* stage 1; an unavailable backend only adds a warning and stage 1 is
\* attempted regardless.
C14_SnapshotInResult ==
    /\ PipelineReturned =>
          /\ "runtime_status" \in DOMAIN ret.out.v.d
          /\ ret.out.v.d.runtime_status = ret.args.availability
    /\ ret.op = "run_full_pipeline" =>
          /\ Has(ret.trace, "analyze_function")
          /\ (PipelineReturned /\ ~Available(ret.args.availability, TargetLang(ret.args.language)))
                => Len(ret.out.v.d.warnings) = 1

\* the framework-specific rule list the contract gives a framework name
RulesFor(framework) ==
    IF framework \in {"junit5", "pytest", "jest"}
    THEN FrameworkGuardrails(framework) ELSE FrameworkGuardrails("generic")

\* C15: for every test_framework value, the guardrails of the output are the
\* base rule list followed by the junit5, pytest or jest list for those
\* frameworks and by the generic fallback list for any other value.
C15_GuardrailsComplete ==
    (ret.op = "build_prompt" /\ ret.out.k = "return" /\ InError(ret.out.v) = "no") =>
       ret.out.v.d.guardrails = BaseGuardrails \o RulesFor(ret.out.v.d.test_framework)

\* the branches the contract gives a function with these constructs
BranchesOf(c) ==
    c.conditionals + c.loops + (c.tries + c.handlers + c.orelses + c.finalbodies)

\* C16: for every function definition, branches is the number of conditional
\* statements plus the number of for/while loops plus, for each try statement,
\* 1 + its handler clauses + 1 for an else clause + 1 for a finally clause,
\* counted in its body, and local_complexity is 1 + branches.
C16_BranchFormula ==
    /\ \A i \in 1..Len(heap) :
          /\ heap[i].branches = BranchesOf(tally[i])
          /\ heap[i].local_complexity = 1 + heap[i].branches
    /\ AnalyzerReturned =>
          \A i \in 1..Len(returned.d.functions) :
             /\ returned.d.functions[i].branches
                   = BranchesOf(tally[returned.d.functions[i].name])
             /\ returned.d.functions[i].local_complexity
                   = 1 + returned.d.functions[i].branches

\* a returned function with one conditional and nothing else: branches 1,
\* complexity 2; and one with a try statement with a handler
C16_Witness ==
    /\ AnalyzerReturned
    /\ \E i \in 1..Len(returned.d.functions) :
          /\ BranchesOf(tally[returned.d.functions[i].name]) = 1
          /\ tally[returned.d.functions[i].name].conditionals = 1
          /\ returned.d.functions[i].branches = 1
          /\ returned.d.functions[i].local_complexity = 2
    /\ \E i \in 1..Len(returned.d.functions) :
          /\ tally[returned.d.functions[i].name].tries = 1
          /\ tally[returned.d.functions[i].name].handlers = 1
          /\ returned.d.functions[i].branches >= 2

RECURSIVE Sum(_, _)
Sum(f, n) == IF n = 0 THEN 0 ELSE f[n] + Sum(f, n - 1)

\* a step that met a counted construct inside a function definition
MetCounted == Len(tally') = Len(tally) /\ tally' # tally

\* what a step may do to the counters
Attributed ==
    /\ MetCounted =>
          /\ heap'[Enclosing].branches > heap[Enclosing].branches
          /\ \A i \in 1..Len(heap) : (i # Enclosing) => (heap'[i] = heap[i])
    /\ (visited' # visited /\ Enclosing = 0) =>
          /\ heap' = heap
          /\ total_branches' = total_branches
          /\ complexity' = complexity

\* C17: every counted construct is attributed to exactly one FunctionInfo,
\* that of the innermost enclosing definition: the scope pointer names that
\* definition at every point of the traversal, also after a nested
\* definition has ended, a construct met inside a definition raises the
\* counts of that definition and of no other, a construct outside any
\* definition changes no counter, and the result's branches and complexity
\* are the sums of the per-function values.
C17_InnermostScope ==
    /\ [](current_function = Enclosing)
    /\ [](AnalyzerReturned =>
            /\ returned.d.branches
                  = Sum([i \in 1..Len(returned.d.functions) |->
                           returned.d.functions[i].branches], Len(returned.d.functions))
            /\ returned.d.complexity
                  = Sum([i \in 1..Len(returned.d.functions) |->
                           returned.d.functions[i].local_complexity],
                        Len(returned.d.functions)))
    /\ [][Attributed]_vars

\* the outer of two nested definitions was credited with a construct that
\* follows the inner one, the inner with a construct of its own
C17_Witness ==
    /\ AnalyzerReturned
    /\ Len(returned.d.functions) = 2
    /\ tally[2].parent = 1
    /\ tally[1].late = 1
    /\ returned.d.functions[2].name = 1 /\ returned.d.functions[2].branches >= 1
    /\ returned.d.functions[1].name = 2 /\ returned.d.functions[1].branches >= 1

VoidLike == {"void", "None", "undefined"}

Summarized ==
    /\ ret.op = "summarize_flow"
    /\ ret.out.k = "return" /\ InError(ret.out.v) = "no"

\* C18: whenever the outputs of the analysis are empty or consist only of
\* void-like type names, such as ['None'], ['void'] or ['undefined'],
\* summarize_flow includes the 'no meaningful return value' risk and the
\* recommendation to verify outputs and side effects, whatever the other
\* risk checks add.
C18_VoidOutputsRisk ==
    (Summarized /\ \A i \in 1..Len(ret.args.analysis.d.outputs) :
                      ret.args.analysis.d.outputs[i] \in VoidLike) =>
       /\ Has(ret.out.v.d.risks, "no meaningful return value detected")
       /\ Has(ret.out.v.d.recommendations, "verify expected outputs and side effects")

Stages == {"analysis", "flow", "prompt"}

\* the stages whose payload is in the result and carries no error
CleanStages == {k \in Stages : k \in DOMAIN ret.out.v.d /\ ~StagePayloadError(k)}

\* what the results of run_full_pipeline have in common
StepsAndErrors ==
    /\ (Len(ret.out.v.d.errors) = 0) <=> (ret.out.v.d.meta.steps_completed = 3)
    /\ ret.out.v.d.meta.steps_completed = 2 =>
          /\ ~StagePayloadError("analysis")
          /\ ~StagePayloadError("flow")
          /\ StagePayloadError("prompt")
    /\ StagePayloadError("flow") =>
          /\ ret.out.v.d.meta.steps_completed = 1
          /\ Len(ret.out.v.d.errors) = 2

\* C19 as stated: in every result of run_full_pipeline the errors list is
\* empty exactly when steps_completed = 3, steps_completed is 3 minus the
\* number of stages whose payload carries an error, steps_completed = 2 only
\* when stage 3 alone failed, and a stage-2 failure gives steps_completed = 1
\* with two errors.
C19_StepsThreeMinusErrors ==
    PipelineReturned =>
       /\ StepsAndErrors
       /\ ret.out.v.d.meta.steps_completed
             = 3 - Cardinality({k \in Stages : StagePayloadError(k)})

\* C19 as amended: in every result of run_full_pipeline the errors list is
\* empty exactly when steps_completed = 3, steps_completed is the number of
\* stages whose payload is in the result and carries no error (3 minus the
\* number of error payloads when the three stages ran, 0 in the early return
\* after a stage-1 failure, whose only payload carries the error),
\* steps_completed = 2 only when stage 3 alone failed, and a stage-2 failure
\* gives steps_completed = 1 with two errors.
C19_StepsCountCleanStages ==
    PipelineReturned =>
       /\ StepsAndErrors
       /\ ret.out.v.d.meta.steps_completed = Cardinality(CleanStages)
       /\ "flow" \in DOMAIN ret.out.v.d =>
             ret.out.v.d.meta.steps_completed
               = 3 - Cardinality({k \in Stages : StagePayloadError(k)})
       /\ "flow" \notin DOMAIN ret.out.v.d =>
             /\ ret.out.v.d.meta.steps_completed = 0
             /\ Len(ret.out.v.d.errors) = 1

\* the early return after a stage-1 failure: one error payload, no step
C19_Witness ==
    /\ PipelineReturned
    /\ StagePayloadError("analysis")
    /\ "flow" \notin DOMAIN ret.out.v.d
    /\ ret.out.v.d.meta.steps_completed = 0
    /\ Cardinality({k \in Stages : StagePayloadError(k)}) = 1

\* the last step was a call of this tool
Called(op) == ret'.op = op /\ clock' # clock

\* what a tool call leaves alone
Framed ==
    /\ Called("analyze_function") =>
          /\ last_prompts' = last_prompts
          /\ (ret'.out.k = "raise" \/ InError(ret'.out.v) = "yes") =>
                last_analyses' = last_analyses
    /\ Called("build_prompt") => last_analyses' = last_analyses

\* C20: an analyze_function call that ends in an error leaves both caches
\* unchanged, analyze_function never changes the prompt cache and
\* build_prompt never changes the analysis cache; so every entry of the
\* analysis cache records success = true and the success rate
\* get_last_analyses derives is 1 whenever the cache is non-empty.
C20_FramesAndSuccessRate ==
    /\ [][Framed]_vars
    /\ [](\A i \in 1..Len(last_analyses) : last_analyses[i].success = TRUE)
    /\ [](Len(last_analyses) > 0 =>
            GetLastAnalyses(last_analyses).success_rate.successes
              = GetLastAnalyses(last_analyses).success_rate.out_of)

\* a failed analyze_function call after a successful one and a build_prompt
\* call: both caches hold what they held
C20_Witness ==
    /\ ret.op = "analyze_function"
    /\ ret.out.k = "return" /\ InError(ret.out.v) = "yes"
    /\ ret.contacted # "none"
    /\ Len(last_analyses) > 0
    /\ Len(last_prompts) > 0

====
